---- MODULE Spec2Model ----
(***************************************************************************)
(* Model of script/rank_updater.py: the ranking updater of WalkTracker.    *)
(*                                                                         *)
(* Encodings.  A calendar date "YYYY-MM-DD" is the integer YYYYMMDD, a     *)
(* month key "YYYY-MM" the integer YYYYMM and a year key "YYYY" the        *)
(* integer YYYY: on well-formed zero-padded keys the string comparison of  *)
(* the Firestore query is the integer comparison, and the f-strings that   *)
(* append "-01", "-DD", "-01-01", "-12-31" are the arithmetic below.       *)
(* A user id is a natural number; EmptyStr stands for the empty string and *)
(* NoField for a field that is absent from the document.  Distances are    *)
(* integers (exact addition).  updatedAt (a server timestamp) is left out. *)
(***************************************************************************)
EXTENDS Integers, Sequences, FiniteSets, TLC

\* ---------------------------------------------------------------- bounds
MaxUsers == 2
MaxRecords == 3
MaxDist == 1
MaxRuns == 2
MaxChanges == 1
MaxBatchUsers == 1001

\* ------------------------------------------------------- program constants
NoField == -1
EmptyStr == 0
BatchLimit == 500
UnknownUser == "Unknown User"

VARIABLES
  activities,       \* collection daily_activities, in the order the store delivers it
  users,            \* collection users: user id -> profile document
  rankings,         \* collection rankings: document id -> data
  now_kst,          \* the KST calendar day the scheduler runs on
  pc,               \* idle (no process), call, aggregate, write, commit, ended
  todo,             \* calls of update_ranking_for_period the driver still has to make
  user_cache,       \* module-level display-name cache of the running process
  period_type, period_key, start_date, end_date,
  user_distances,   \* dict in insertion order: sequence of <<user id, total>>
  sorted_rankings, batch, count, rank,
  outcome,          \* how the last call of update_ranking_for_period ended
  exit,             \* how the last process ended: none, ok, or the error that killed it
  runs,             \* processes started so far
  changes,          \* changes of the activity store made by its owner so far
  driver,           \* who started the running process: main or direct
  log,              \* calls made by the running process: <<type, key, outcome>>
  ops,              \* store operations of the current call: query, lookup, commit
  commits,          \* batches committed by the current call
  pre,              \* ranking store and cache when the current call started
  snap,             \* per period: the input last aggregated, the period's documents
                    \* before its first run, the commits each aborted run had made
  hist,             \* per period: the completed runs, oldest first
  reads             \* user ids whose profile the running process read from the store

vars == <<activities, users, rankings, now_kst, pc, todo, user_cache,
          period_type, period_key, start_date, end_date, user_distances,
          sorted_rankings, batch, count, rank, outcome, exit, runs, changes,
          driver, log, ops, commits, pre, snap, hist, reads>>

stores == <<activities, users, rankings, now_kst>>
locals == <<period_type, period_key, start_date, end_date, user_distances,
            sorted_rankings, batch, count, rank>>

\* ------------------------------------------------------------- utilities
Range(s) == {s[i] : i \in 1..Len(s)}

Put(f, k, v) == [x \in (DOMAIN f) \cup {k} |-> IF x = k THEN v ELSE f[x]]

Empty == [x \in {} |-> 0]

RemoveAt(s, i) == [k \in 1..(Len(s) - 1) |-> IF k < i THEN s[k] ELSE s[k + 1]]

InsertAt(s, i, r) ==
  [k \in 1..(Len(s) + 1) |-> IF k < i THEN s[k] ELSE IF k = i THEN r ELSE s[k - 1]]

\* --------------------------------------------------------------- calendar
Year(d) == d \div 10000
MonthOf(d) == (d \div 100) % 100
DayOf(d) == d % 100

\* (mutant: a leap year every fourth year, the century rule left out)
IsLeapJulian(y) == y % 4 = 0

IsLeap(y) == (y % 4 = 0 /\ y % 100 # 0) \/ y % 400 = 0

\* calendar.monthrange(year, month)[1]
MonthRange(y, m) ==
  IF m = 2 THEN (IF IsLeap(y) THEN 29 ELSE 28)
  ELSE IF m \in {4, 6, 9, 11} THEN 30 ELSE 31

\* (mutant: the day itself, timedelta left out)
YesterdayIsToday(d) == d

\* now_kst - timedelta(days=1), formatted %Y-%m-%d
Yesterday(d) ==
  IF DayOf(d) > 1 THEN d - 1
  ELSE IF MonthOf(d) > 1
       THEN Year(d) * 10000 + (MonthOf(d) - 1) * 100 + MonthRange(Year(d), MonthOf(d) - 1)
       ELSE (Year(d) - 1) * 10000 + 1231

\* now_kst.strftime("%Y-%m") and str(now_kst.year)
MonthKey(d) == d \div 100
YearKey(d) == d \div 10000

\* the three calls of main, in order
MainCalls(now) ==
  << <<"daily", Yesterday(now)>>, <<"monthly", MonthKey(now)>>, <<"yearly", YearKey(now)>> >>

\* ------------------------------------------------------- window resolver
\* (mutant: the last branch taken as else, whatever the type)
KnownTypeAny(t) == TRUE

KnownType(t) == t \in {"daily", "monthly", "yearly"}

StartDate(t, key) ==
  IF t = "daily" THEN key
  ELSE IF t = "monthly" THEN key * 100 + 1
  ELSE key * 10000 + 101

EndDate(t, key) ==
  IF t = "daily" THEN key
  ELSE IF t = "monthly" THEN key * 100 + MonthRange(key \div 100, key % 100)
  ELSE key * 10000 + 1231

\* ------------------------------------------------------------ aggregator
\* (mutant: the end of the window left out)
InWindowOpenEnd(doc, s, e) == doc.date >= s /\ doc.date < e

\* where('date', '>=', start_date).where('date', '<=', end_date)
InWindow(doc, s, e) == doc.date >= s /\ doc.date <= e

\* the stream of the query: the matching documents, in the store's order
Query(docs, s, e) ==
  LET Matches(doc) == InWindow(doc, s, e) IN SelectSeq(docs, Matches)

\* (mutant: the test of the user id left out)
TruthyAlways(user_id) == TRUE

\* Python truthiness of data.get('userId'): None and '' are falsy
Truthy(user_id) == user_id # NoField /\ user_id # EmptyStr

\* data.get('distance', 0)
DistanceOf(doc) == IF doc.distance = NoField THEN 0 ELSE doc.distance

DictHas(d, k) == \E i \in 1..Len(d) : d[i][1] = k

DictGet(d, k, default) ==
  IF DictHas(d, k) THEN d[CHOOSE i \in 1..Len(d) : d[i][1] = k][2] ELSE default

\* d[k] = v: an existing key keeps its place, a new key goes last
DictSet(d, k, v) ==
  IF DictHas(d, k)
  THEN [i \in 1..Len(d) |-> IF d[i][1] = k THEN <<k, v>> ELSE d[i]]
  ELSE Append(d, <<k, v>>)

\* (mutant: the distance assigned, not added)
AddDocAssigns(d, doc) ==
  IF Truthy(doc.userId) THEN DictSet(d, doc.userId, DistanceOf(doc)) ELSE d

\* one iteration of the summing loop
AddDoc(d, doc) ==
  IF Truthy(doc.userId)
  THEN DictSet(d, doc.userId, DictGet(d, doc.userId, 0) + DistanceOf(doc))
  ELSE d

\* the loop over docs[lo..hi], in order, starting from dict d.  The range is
\* halved, and the left half evaluated before the right one is entered, so
\* that the evaluation stays shallow on long streams.
RECURSIVE AccumulateRange(_, _, _, _)
AccumulateRange(docs, lo, hi, d) ==
  IF lo > hi THEN d
  ELSE IF lo = hi THEN AddDoc(d, docs[lo])
  ELSE LET mid == (lo + hi) \div 2
           left == AccumulateRange(docs, lo, mid, d)
       IN IF Len(left) >= 0 THEN AccumulateRange(docs, mid + 1, hi, left) ELSE left

Accumulate(docs, d) == AccumulateRange(docs, 1, Len(docs), d)

\* ---------------------------------------------------------------- ranker
\* sorted(items, key=lambda x: x[1], reverse=True): descending by total, and
\* stable, so items of equal total keep the order they have in items.
\* pos[i] is the place of items[i] in the result (\o << >> makes the function
\* a sequence, evaluated once).
\* (mutant: reverse=True forgotten)
SortKeyAscending(a, b) == a[2] < b[2]

SortKeyBefore(a, b) == a[2] > b[2]

SortedRankings(items) ==
  LET n == Len(items)
      pos == [i \in 1..n |->
                Cardinality({j \in 1..n : \/ SortKeyBefore(items[j], items[i])
                                          \/ /\ ~SortKeyBefore(items[i], items[j])
                                             /\ j < i}) + 1] \o << >>
  IN [k \in 1..n |-> items[CHOOSE i \in 1..n : pos[i] = k]] \o << >>

\* (mutant: the document named by the user alone)
DocIdUserOnly(t, key, user_id) == <<"", 0, user_id>>

DocId(t, key, user_id) == <<t, key, user_id>>

\* get_user_display_name without the store error: <<name, cache afterwards>>
DisplayName(cache, store, user_id) ==
  IF user_id \in DOMAIN cache THEN <<cache[user_id], cache>>
  ELSE IF user_id \in DOMAIN store /\ store[user_id].exists
       THEN LET name == IF store[user_id].hasName
                        THEN store[user_id].displayName ELSE UnknownUser
            IN <<name, Put(cache, user_id, name)>>
       ELSE <<UnknownUser, cache>>

\* whether the lookup reads the profile store
ReadsStore(cache, user_id) == user_id \notin DOMAIN cache

RankingData(t, key, user_id, name, total, r) ==
  [userId |-> user_id, displayName |-> name, distance |-> total,
   period |-> t, periodKey |-> key, rank |-> r]

\* (mutants: the flush one entry late, and no flush inside the loop)
BatchFullLate(c) == c % (BatchLimit + 1) = 0

BatchFullNever(c) == FALSE

\* if count % 500 == 0
BatchFull(c) == c % BatchLimit = 0

\* (mutant: the set adds the distance to the document already there)
CommitIncrements(store, b) ==
  [id \in (DOMAIN store) \cup {b[i].ref : i \in 1..Len(b)} |->
     IF \E i \in 1..Len(b) : b[i].ref = id
     THEN LET data == b[CHOOSE i \in 1..Len(b) : b[i].ref = id].data
          IN IF id \in DOMAIN store
             THEN [data EXCEPT !.distance = @ + store[id].distance]
             ELSE data
     ELSE store[id]]

\* batch.commit(): every set of the batch replaces its document whole
Commit(store, b) ==
  LET Sets(id) == {i \in 1..Len(b) : b[i].ref = id}
      Last(id) == CHOOSE i \in Sets(id) : \A j \in Sets(id) : j <= i
  IN [id \in (DOMAIN store) \cup {b[i].ref : i \in 1..Len(b)} |->
        IF Sets(id) # {} THEN b[Last(id)].data ELSE store[id]]

\* ----------------------------------------------------------- observation
PeriodDocs(store, t, key) ==
  [id \in {x \in DOMAIN store : x[1] = t /\ x[2] = key} |-> store[id]]

NoOps == [query |-> 0, lookup |-> 0, commit |-> 0]

Bump(o, what) == [o EXCEPT ![what] = @ + 1]

Logged(l, t, key, how) == Append(l, <<t, key, how>>)

\* the entry of a completed run kept in hist
RunSummary(docs, totals, store, t, key) ==
  [input |-> docs,
   result |-> [u \in {totals[i][1] : i \in 1..Len(totals)} |->
                 [distance |-> store[DocId(t, key, u)].distance,
                  rank |-> store[DocId(t, key, u)].rank]]]

Pushed(h, p, e) == Put(h, p, IF p \in DOMAIN h THEN Append(h[p], e) ELSE <<e>>)

\* ------------------------------------------------------------------ Init
\* user-profile store: one user with a display name, one without a profile
\* document, one with a document that lacks the displayName field, and so on
Profile(u) ==
  IF u % 3 = 1 THEN [exists |-> TRUE, hasName |-> TRUE,
                     displayName |-> IF u % 2 = 1 THEN "Ann" ELSE "Bob"]
  ELSE IF u % 3 = 2 THEN [exists |-> FALSE, hasName |-> FALSE, displayName |-> ""]
  ELSE [exists |-> TRUE, hasName |-> FALSE, displayName |-> ""]

\* records inside the windows of the run, one before them, and two malformed
Records ==
  [userId : 1..MaxUsers, date : {20240229, 20240301}, distance : {NoField} \cup 1..MaxDist]
  \cup {[userId |-> 1, date |-> 20231231, distance |-> 1]}
  \cup [userId : {NoField, EmptyStr}, date : {20240229}, distance : {1}]

SeqsUpTo(S, n) == UNION {[1..k -> S] : k \in 0..n}

\* before the first process: no cache, no frame of update_ranking_for_period
InitProcess ==
  /\ pc = "idle"
  /\ todo = << >>
  /\ user_cache = Empty
  /\ period_type = "" /\ period_key = 0 /\ start_date = 0 /\ end_date = 0
  /\ user_distances = << >> /\ sorted_rankings = << >>
  /\ batch = << >> /\ count = 0 /\ rank = 1
  /\ outcome = "none" /\ exit = "none" /\ runs = 0 /\ changes = 0
  /\ driver = "none" /\ log = << >> /\ ops = NoOps /\ commits = << >>
  /\ pre = [rankings |-> Empty, user_cache |-> Empty]
  /\ snap = Empty /\ hist = Empty /\ reads = << >>

Init ==
  /\ activities \in SeqsUpTo(Records, MaxRecords - 1)
  /\ users = [u \in 1..MaxUsers |-> Profile(u)]
  /\ rankings = Empty
  /\ now_kst = 20240301
  /\ InitProcess

\* one record per user, all dated the day before the run
BatchSizes ==
  {1, BatchLimit - 1, BatchLimit, BatchLimit + 1, 2 * BatchLimit, MaxBatchUsers}

InitBatch ==
  /\ \E n \in BatchSizes :
       /\ activities = [i \in 1..n |->
                          [userId |-> i, date |-> 20231231, distance |-> 1 + (i % 3)]]
       /\ users = [u \in 1..n |-> Profile(u)]
  /\ rankings = Empty
  /\ now_kst = 20240101
  /\ InitProcess

\* --------------------------------------------------------------- actions
FreshLocals ==
  /\ user_distances' = << >> /\ sorted_rankings' = << >>
  /\ batch' = << >> /\ count' = 0 /\ rank' = 1

\* python rank_updater.py: the module is loaded (user_cache = {}) and main()
\* derives the three periods from now
Start ==
  /\ pc = "idle" /\ runs < MaxRuns
  /\ pc' = "call"
  /\ todo' = MainCalls(now_kst)
  /\ user_cache' = Empty
  /\ driver' = "main"
  /\ runs' = runs + 1
  /\ exit' = "none" /\ outcome' = "none" /\ log' = << >>
  /\ reads' = << >>
  /\ UNCHANGED <<stores, locals, changes, ops, commits, pre, snap, hist>>

\* a caller that imports the module and calls update_ranking_for_period itself
DirectScripts(now) ==
  { << <<t, MonthKey(now)>>, <<"monthly", MonthKey(now)>> >> : t \in {"weekly", "Monthly"} }

StartDirect ==
  /\ pc = "idle" /\ runs < MaxRuns
  /\ pc' = "call"
  /\ todo' \in DirectScripts(now_kst)
  /\ user_cache' = Empty
  /\ driver' = "direct"
  /\ runs' = runs + 1
  /\ exit' = "none" /\ outcome' = "none" /\ log' = << >>
  /\ reads' = << >>
  /\ UNCHANGED <<stores, locals, changes, ops, commits, pre, snap, hist>>

\* lines 44-64: the call and its window
Resolve ==
  /\ pc = "call" /\ todo # << >>
  /\ LET t == Head(todo)[1]
         key == Head(todo)[2]
     IN /\ period_type' = t
        /\ period_key' = key
        /\ todo' = Tail(todo)
        /\ ops' = NoOps /\ commits' = << >>
        /\ pre' = [rankings |-> rankings, user_cache |-> user_cache]
        /\ FreshLocals
        /\ IF KnownType(t)
           THEN /\ start_date' = StartDate(t, key)
                /\ end_date' = EndDate(t, key)
                /\ pc' = "aggregate"
                /\ outcome' = "running"
                /\ log' = log
           ELSE /\ UNCHANGED <<start_date, end_date>>
                /\ pc' = "call"
                /\ outcome' = "unknown_type"
                /\ log' = Logged(log, t, key, "unknown_type")
  /\ UNCHANGED <<stores, user_cache, exit, runs, changes, driver, snap, hist, reads>>

\* the process is gone, and its memory with it
EndProcess ==
  /\ pc' = "ended"
  /\ todo' = << >>
  /\ user_cache' = Empty
  /\ period_type' = "" /\ period_key' = 0 /\ start_date' = 0 /\ end_date' = 0
  /\ FreshLocals
  /\ ops' = NoOps /\ commits' = << >>
  /\ pre' = [rankings |-> Empty, user_cache |-> Empty]
  /\ reads' = << >>

\* an uncaught exception ends the process: nothing catches it in main, and
\* the calls still in todo are never made
Raise(error) ==
  /\ EndProcess
  /\ exit' = error
  /\ outcome' = "raised"
  /\ log' = Logged(log, period_type, period_key, error)
  /\ snap' = IF pc \in {"write", "commit"}
             THEN [snap EXCEPT ![<<period_type, period_key>>].aborts =
                                  Append(@, Len(commits))]
             ELSE snap
  /\ UNCHANGED <<stores, runs, changes, driver, hist>>

\* lines 66-91: query, sum per user, sort
Aggregate ==
  /\ pc = "aggregate"
  /\ LET docs == Query(activities, start_date, end_date)
         totals == Accumulate(docs, << >>)
         p == <<period_type, period_key>>
     IN /\ ops' = Bump(ops, "query")
        /\ user_distances' = totals
        /\ snap' = IF p \in DOMAIN snap /\ snap[p].input = docs
                   THEN snap
                   ELSE Put(snap, p, [input |-> docs,
                                      store |-> PeriodDocs(rankings, period_type, period_key),
                                      aborts |-> << >>])
        /\ IF totals = << >>
           THEN /\ pc' = "call"
                /\ outcome' = "no_data"
                /\ log' = Logged(log, period_type, period_key, "no_data")
                /\ UNCHANGED <<sorted_rankings, batch, count, rank>>
           ELSE /\ pc' = "write"
                /\ sorted_rankings' = SortedRankings(totals)
                /\ batch' = << >> /\ count' = 0 /\ rank' = 1
                /\ UNCHANGED <<outcome, log>>
  /\ UNCHANGED <<stores, todo, user_cache, period_type, period_key, start_date,
                 end_date, exit, runs, changes, driver, commits, pre, hist, reads>>

\* the stream of the activity store raises
AggregateFails ==
  /\ pc = "aggregate"
  /\ Raise("activity_read_error")

\* lines 93-114: one iteration of the write loop
WriteEntry ==
  /\ pc = "write" /\ rank <= Len(sorted_rankings)
  /\ LET user_id == sorted_rankings[rank][1]
         total_distance == sorted_rankings[rank][2]
         looked == DisplayName(user_cache, users, user_id)
         data == RankingData(period_type, period_key, user_id, looked[1],
                             total_distance, rank)
         filled == Append(batch, [ref |-> DocId(period_type, period_key, user_id),
                                  data |-> data])
     IN /\ user_cache' = looked[2]
        /\ reads' = IF ReadsStore(user_cache, user_id) THEN Append(reads, user_id) ELSE reads
        /\ count' = count + 1
        /\ rank' = rank + 1
        /\ IF BatchFull(count + 1)
           THEN /\ rankings' = Commit(rankings, filled)
                /\ commits' = Append(commits, filled)
                /\ batch' = << >>
                /\ ops' = Bump(IF ReadsStore(user_cache, user_id)
                               THEN Bump(ops, "lookup") ELSE ops, "commit")
           ELSE /\ batch' = filled
                /\ ops' = IF ReadsStore(user_cache, user_id)
                          THEN Bump(ops, "lookup") ELSE ops
                /\ UNCHANGED <<rankings, commits>>
        /\ pc' = IF rank + 1 > Len(sorted_rankings) THEN "commit" ELSE "write"
  /\ UNCHANGED <<activities, users, now_kst, todo, period_type, period_key,
                 start_date, end_date, user_distances, sorted_rankings, outcome,
                 exit, runs, changes, driver, log, pre, snap, hist>>

\* line 36: user_ref.get() raises
LookupFails ==
  /\ pc = "write" /\ rank <= Len(sorted_rankings)
  /\ ReadsStore(user_cache, sorted_rankings[rank][1])
  /\ Raise("profile_error")

\* line 113: the commit of a full batch raises after the lookup of the entry;
\* the batch is atomic, nothing of it is written
FlushFails ==
  /\ pc = "write" /\ rank <= Len(sorted_rankings)
  /\ BatchFull(count + 1)
  /\ Raise("commit_error")

\* lines 116-118: the last commit and the return
FinalCommit ==
  /\ pc = "commit"
  /\ rankings' = Commit(rankings, batch)
  /\ commits' = Append(commits, batch)
  /\ ops' = Bump(ops, "commit")
  /\ pc' = "call"
  /\ outcome' = "updated"
  /\ log' = Logged(log, period_type, period_key, "updated")
  /\ hist' = Pushed(hist, <<period_type, period_key>>,
                    RunSummary(snap[<<period_type, period_key>>].input, user_distances,
                               Commit(rankings, batch), period_type, period_key))
  /\ UNCHANGED <<activities, users, now_kst, todo, user_cache, locals, exit,
                 runs, changes, driver, pre, snap, reads>>

FinalCommitFails ==
  /\ pc = "commit"
  /\ Raise("commit_error")

\* main returns and the process ends
Exit ==
  /\ pc = "call" /\ todo = << >>
  /\ EndProcess
  /\ exit' = "ok"
  /\ UNCHANGED <<stores, outcome, runs, changes, driver, log, snap, hist>>

\* the scheduler collects the exit status; the next run is a new process
Reap ==
  /\ pc = "ended"
  /\ pc' = "idle"
  /\ exit' = "none" /\ outcome' = "none" /\ log' = << >> /\ driver' = "none"
  /\ UNCHANGED <<stores, todo, user_cache, locals, runs, changes, ops, commits,
                 pre, snap, hist, reads>>

\* the activity-tracking system, owner of daily_activities, between two runs
AddActivity ==
  /\ pc = "idle" /\ changes < MaxChanges /\ Len(activities) < MaxRecords
  /\ \E r \in Records, i \in 1..(Len(activities) + 1) :
       activities' = InsertAt(activities, i, r)
  /\ changes' = changes + 1
  /\ UNCHANGED <<users, rankings, now_kst, pc, todo, user_cache, locals, outcome,
                 exit, runs, driver, log, ops, commits, pre, snap, hist, reads>>

RemoveActivity ==
  /\ pc = "idle" /\ changes < MaxChanges
  /\ \E i \in 1..Len(activities) : activities' = RemoveAt(activities, i)
  /\ changes' = changes + 1
  /\ UNCHANGED <<users, rankings, now_kst, pc, todo, user_cache, locals, outcome,
                 exit, runs, driver, log, ops, commits, pre, snap, hist, reads>>

\* a record deleted and written again under a new document id
MoveActivity ==
  /\ pc = "idle" /\ changes < MaxChanges
  /\ \E i \in 1..Len(activities), j \in 1..Len(activities) :
       /\ i # j
       /\ activities' = InsertAt(RemoveAt(activities, i), j, activities[i])
  /\ changes' = changes + 1
  /\ UNCHANGED <<users, rankings, now_kst, pc, todo, user_cache, locals, outcome,
                 exit, runs, driver, log, ops, commits, pre, snap, hist, reads>>

\* a store of at most MaxRecords records never fills a batch, so FlushFails is
\* left to NextBatch
Next ==
  \/ Start \/ StartDirect \/ Resolve \/ Aggregate \/ AggregateFails
  \/ WriteEntry \/ LookupFails \/ FinalCommit \/ FinalCommitFails
  \/ Exit \/ Reap \/ AddActivity \/ RemoveActivity \/ MoveActivity

Spec == Init /\ [][Next]_vars

\* the same program on a store large enough to fill batches; the profile and
\* activity stores answer, the ranking store may refuse a commit
NextBatch ==
  \/ Start \/ Resolve \/ Aggregate \/ WriteEntry \/ FlushFails
  \/ FinalCommit \/ FinalCommitFails \/ Exit \/ Reap

SpecBatch == InitBatch /\ [][NextBatch]_vars

\* the scheduler on any day: the first, a middle and the last day of every
\* month of a common year, a leap year, and the century years 1900 and 2000
Years == {1900, 2000, 2023, 2024}

Days ==
  UNION {{y * 10000 + m * 100 + d : d \in {1, 15, MonthRange(y, m)}} :
           y \in Years, m \in 1..12}

RecordsOn(now) ==
  {[userId |-> 1, date |-> d, distance |-> 1] : d \in {now, Yesterday(now)}}

InitDays ==
  /\ now_kst \in Days
  /\ activities \in SeqsUpTo(RecordsOn(now_kst), 1)
  /\ users = [u \in 1..MaxUsers |-> Profile(u)]
  /\ rankings = Empty
  /\ InitProcess

NextDays ==
  \/ Start \/ Resolve \/ Aggregate \/ AggregateFails \/ WriteEntry
  \/ FinalCommit \/ Exit \/ Reap

SpecDays == InitDays /\ [][NextDays]_vars


\* a leaderboard of more than one batch that is ranked, changes and is ranked
\* again: a record of the day before arrives late for the first or the last
\* user, with or without a distance
InitRerank ==
  /\ activities = [i \in 1..(BatchLimit + 1) |->
                     [userId |-> i, date |-> 20231231, distance |-> 1 + (i % 3)]]
  /\ users = [u \in 1..(BatchLimit + 1) |-> Profile(u)]
  /\ rankings = Empty
  /\ now_kst = 20240101
  /\ InitProcess

LateRecords ==
  [userId : {1, BatchLimit + 1}, date : {20231231}, distance : {NoField, 3}]

AppendActivity ==
  /\ pc = "idle" /\ changes < MaxChanges
  /\ \E r \in LateRecords : activities' = Append(activities, r)
  /\ changes' = changes + 1
  /\ UNCHANGED <<users, rankings, now_kst, pc, todo, user_cache, locals, outcome,
                 exit, runs, driver, log, ops, commits, pre, snap, hist, reads>>

NextRerank ==
  \/ Start \/ Resolve \/ Aggregate \/ WriteEntry \/ FinalCommit \/ Exit \/ Reap
  \/ AppendActivity

SpecRerank == InitRerank /\ [][NextRerank]_vars

\* the scheduler day after day: main runs once a day, midnight passes after
\* the run of the day, and a record dated today arrives at any time of a day
\* that is followed by another run
Tomorrow(d) ==
  IF DayOf(d) < MonthRange(Year(d), MonthOf(d)) THEN d + 1
  ELSE IF MonthOf(d) < 12 THEN Year(d) * 10000 + (MonthOf(d) + 1) * 100 + 1
       ELSE (Year(d) + 1) * 10000 + 101

LiveDays == {20240228, 20240229, 20240301, 20241230, 20241231, 20250101}

InitLive ==
  /\ now_kst \in {20240228, 20241230}
  /\ activities = << >>
  /\ users = [u \in 1..MaxUsers |-> Profile(u)]
  /\ rankings = Empty
  /\ InitProcess

\* in SpecLive runs counts the processes started on the current day
StartDaily == runs = 0 /\ Start

Tick ==
  /\ pc = "idle" /\ runs = 1
  /\ Tomorrow(now_kst) \in LiveDays
  /\ now_kst' = Tomorrow(now_kst)
  /\ runs' = 0
  /\ UNCHANGED <<activities, users, rankings, pc, todo, user_cache, locals, outcome,
                 exit, changes, driver, log, ops, commits, pre, snap, hist, reads>>

ArriveToday ==
  /\ pc = "idle" /\ Len(activities) < MaxRecords
  /\ Tomorrow(now_kst) \in LiveDays
  /\ \E u \in 1..MaxUsers :
       activities' = Append(activities, [userId |-> u, date |-> now_kst, distance |-> 1])
  /\ UNCHANGED <<users, rankings, now_kst, pc, todo, user_cache, locals, outcome,
                 exit, runs, changes, driver, log, ops, commits, pre, snap, hist, reads>>

ProcessStep == Resolve \/ Aggregate \/ WriteEntry \/ FinalCommit \/ Exit \/ Reap

NextLive == StartDaily \/ ProcessStep \/ Tick \/ ArriveToday

\* the scheduler starts the run of the day, a started process runs to its
\* end, and the day passes
SpecLive ==
  /\ InitLive /\ [][NextLive]_vars
  /\ WF_vars(StartDaily) /\ WF_vars(ProcessStep) /\ WF_vars(Tick)

\* ---------------------------------------------------------------- claims
Returned(how) == pc = "call" /\ outcome = how

Keys(d) == {d[i][1] : i \in 1..Len(d)}

\* the set operations the current call has committed, in order
RECURSIVE Flatten(_)
Flatten(bs) == IF bs = << >> THEN << >> ELSE Head(bs) \o Flatten(Tail(bs))

Written == Flatten(commits)

\* the records of the store that count for user u in the resolved window
MatchingOf(u) ==
  {i \in 1..Len(activities) :
     /\ activities[i].userId = u
     /\ start_date <= activities[i].date /\ activities[i].date <= end_date}

RECURSIVE SumDistance(_)
SumDistance(S) ==
  IF S = {} THEN 0
  ELSE LET i == CHOOSE x \in S : TRUE
       IN (IF activities[i].distance = NoField THEN 0 ELSE activities[i].distance)
          + SumDistance(S \ {i})

StoreUsers == {activities[i].userId : i \in 1..Len(activities)} \ {NoField, EmptyStr}

\* C1: once the records are aggregated, the totals hold one entry per user
\* that has a record with a non-empty userId dated inside [start_date,
\* end_date], and that entry is the sum of the distances (0 when absent) of
\* exactly those records, however the store orders them; records outside the
\* window or without a userId add nothing, several records of one user and
\* day are all added.
C1_TotalsAreWindowSums ==
  (pc \in {"write", "commit"} \/ Returned("updated") \/ Returned("no_data")) =>
    /\ Keys(user_distances) = {u \in StoreUsers : MatchingOf(u) # {}}
    /\ \A i, j \in 1..Len(user_distances) :
         user_distances[i][1] = user_distances[j][1] => i = j
    /\ \A i \in 1..Len(user_distances) :
         user_distances[i][2] = SumDistance(MatchingOf(user_distances[i][1]))

\* two records of user 1 on the same day are summed beside a record without
\* userId in the same window
C1_Witness ==
  /\ pc = "write" /\ period_type = "daily"
  /\ Len(activities) = 3
  /\ user_distances = << <<1, 2>> >>
  /\ \E k \in 1..3 : activities[k].userId = EmptyStr /\ activities[k].date = start_date

\* C2: the entries one completed run has written carry the ranks 1, 2, ..., n
\* in this order, n being the number of users of the totals, and their
\* distances never increase from one rank to the next; each is the content
\* of its ranking document.
C2_RanksDenseAndDescending ==
  Returned("updated") =>
    /\ Len(Written) = Len(user_distances)
    /\ \A i \in 1..Len(Written) :
         /\ Written[i].data.rank = i
         /\ rankings[Written[i].ref] = Written[i].data
         /\ i < Len(Written) => Written[i].data.distance >= Written[i + 1].data.distance

\* a run over more than 500 users, some of equal total, has completed
C2_Witness ==
  /\ Returned("updated")
  /\ Len(Written) > BatchLimit
  /\ \E i \in 1..(Len(Written) - 1) :
       Written[i].data.distance = Written[i + 1].data.distance
  /\ \E i \in 1..(Len(Written) - 1) :
       Written[i].data.distance > Written[i + 1].data.distance

\* C3: no commit carries more than 500 set operations, and when the run has
\* completed each of its n entries is in exactly one committed batch.
C3_BatchesBoundedAndComplete ==
  /\ \A b \in 1..Len(commits) : Len(commits[b]) <= 500
  /\ Returned("updated") =>
       \A k \in 1..Len(sorted_rankings) :
         Cardinality({i \in 1..Len(Written) :
                        Written[i].ref = DocId(period_type, period_key,
                                               sorted_rankings[k][1])}) = 1

\* 501 users: a full batch was committed inside the loop, the last entry at the end
C3_Witness ==
  /\ Returned("updated")
  /\ Len(sorted_rankings) = 501
  /\ Len(commits) = 2 /\ Len(commits[1]) = 500 /\ Len(commits[2]) = 1


\* C4 as claimed: a completed run over n users has made exactly ceil(n/500)
\* commits, each of 1 to 500 writes, and the n documents are in the store.
C4_CeilCommits ==
  Returned("updated") =>
    LET n == Len(sorted_rankings)
    IN /\ Len(commits) = (n + 499) \div 500
       /\ \A b \in 1..Len(commits) : 1 <= Len(commits[b]) /\ Len(commits[b]) <= 500
       /\ \A k \in 1..n :
            DocId(period_type, period_key, sorted_rankings[k][1]) \in DOMAIN rankings

\* C4 amended: a completed run over n users has made exactly floor(n/500) + 1
\* commits: floor(n/500) commits of 500 writes, then a last commit of
\* n mod 500 writes, which is empty when n is a multiple of 500; the n
\* documents are in the store.
C4_FloorPlusOneCommits ==
  Returned("updated") =>
    LET n == Len(sorted_rankings)
    IN /\ Len(commits) = (n \div 500) + 1
       /\ \A b \in 1..(Len(commits) - 1) : Len(commits[b]) = 500
       /\ Len(commits[Len(commits)]) = n % 500
       /\ \A k \in 1..n :
            DocId(period_type, period_key, sorted_rankings[k][1]) \in DOMAIN rankings

\* 500 users: a commit of 500 writes inside the loop, then the last commit,
\* which is empty, and 500 documents of the period
C4_Witness ==
  /\ Returned("updated")
  /\ Len(sorted_rankings) = 500
  /\ Len(commits) = 2
  /\ Len(commits[1]) = 500 /\ Len(commits[2]) = 0
  /\ Cardinality(DOMAIN PeriodDocs(rankings, period_type, period_key)) = 500

\* C5 as claimed: when a call returns, the ranking documents of its period
\* are those of exactly the users that had activity in the window at this run.
C5_NoStaleDocuments ==
  (Returned("updated") \/ Returned("no_data")) =>
    {id[3] : id \in DOMAIN PeriodDocs(rankings, period_type, period_key)}
      = Keys(user_distances)

\* the display name a lookup gives when it starts from an empty cache
NameInStore(u) ==
  IF u \in DOMAIN users /\ users[u].exists /\ users[u].hasName
  THEN users[u].displayName ELSE UnknownUser

\* the documents of period (t, key) after one clean run over input, which
\* started from the documents before
CleanRun(before, t, key, input) ==
  LET sorted == SortedRankings(Accumulate(input, << >>))
      PlaceOf(id) == {k \in 1..Len(sorted) : DocId(t, key, sorted[k][1]) = id}
  IN [id \in (DOMAIN before) \cup {DocId(t, key, sorted[k][1]) : k \in 1..Len(sorted)} |->
        IF PlaceOf(id) # {}
        THEN LET k == CHOOSE x \in PlaceOf(id) : TRUE
             IN RankingData(t, key, sorted[k][1], NameInStore(sorted[k][1]),
                            sorted[k][2], k)
        ELSE before[id]]

ThisPeriod == <<period_type, period_key>>

\* C6: when a run completes, the documents of its period are those a single
\* clean run over the same input leaves, starting from the documents the
\* period had before the first run over this input: whether the earlier runs
\* over this input completed or aborted after any number of batch commits.
C6_RerunIsCleanRun ==
  Returned("updated") =>
    PeriodDocs(rankings, period_type, period_key)
      = CleanRun(snap[ThisPeriod].store, period_type, period_key, snap[ThisPeriod].input)

\* a rerun has completed after a run over the same input that aborted with
\* the first of its two batches committed
C6_Witness ==
  /\ Returned("updated")
  /\ runs = 2
  /\ snap[ThisPeriod].aborts = <<1>>
  /\ Len(commits) = 2 /\ Len(commits[1]) = BatchLimit /\ Len(commits[2]) = 1

\* C7 as claimed: a run of main that has ended has called all three periods,
\* whatever failed in one of them.
C7_FailureConfinedToPeriod ==
  (pc = "ended" /\ driver = "main") =>
    /\ Len(log) = 3
    /\ log[1][1] = "daily" /\ log[2][1] = "monthly" /\ log[3][1] = "yearly"

\* C8: a call with a period type other than daily, monthly or yearly returns
\* at once: it has read no store, looked up no profile and committed nothing,
\* the ranking store and the cache are as the call found them, and the
\* process is alive to make its next call (or ends normally after its last).
C8_UnknownTypeIsNoOp ==
  /\ (period_type \notin {"", "daily", "monthly", "yearly"}) =>
       /\ Returned("unknown_type")
       /\ ops = NoOps /\ commits = << >>
       /\ rankings = pre.rankings
       /\ user_cache = pre.user_cache
  /\ (pc = "ended" /\ Len(log) > 0 /\ log[Len(log)][3] = "unknown_type") =>
       exit = "ok"

\* after a call with an unknown type, the next period of the same process
\* was ranked and written
C8_Witness ==
  /\ Returned("updated")
  /\ Len(log) = 2
  /\ log[1][3] = "unknown_type"
  /\ log[2] = <<"monthly", 202403, "updated">>
  /\ DOMAIN rankings # {}

\* C9 as claimed: no failed display-name lookup ends the run.
C9_LookupFailureDegrades == exit # "profile_error"

BagOf(docs) ==
  [r \in Range(docs) |-> Cardinality({i \in 1..Len(docs) : docs[i] = r})]

\* pairs of completed runs of period p over the same multiset of records
SameInputRuns(p) ==
  {ab \in (1..Len(hist[p])) \X (1..Len(hist[p])) :
     BagOf(hist[p][ab[1]].input) = BagOf(hist[p][ab[2]].input)}

Ahead(res, u) == Cardinality({v \in DOMAIN res : res[v].distance > res[u].distance})

Level(res, u) == Cardinality({v \in DOMAIN res : res[v].distance = res[u].distance})

DaysIn(y, m) ==
  LET common == <<31, 28, 31, 30, 31, 30, 31, 31, 30, 31, 30, 31>>
      leap == y % 4 = 0 /\ (y % 100 # 0 \/ y % 400 = 0)
  IN IF m = 2 /\ leap THEN 29 ELSE common[m]

DateOf(y, m, d) == y * 10000 + m * 100 + d

IsDate(x) ==
  /\ ((x \div 100) % 100) \in 1..12
  /\ (x % 100) \in 1..DaysIn(x \div 10000, (x \div 100) % 100)

DayAfter(x) ==
  LET y == x \div 10000
      m == (x \div 100) % 100
      d == x % 100
  IN IF d < DaysIn(y, m) THEN DateOf(y, m, d + 1)
     ELSE IF m < 12 THEN DateOf(y, m + 1, 1) ELSE DateOf(y + 1, 1, 1)

InCall == pc \in {"aggregate", "write", "commit"}

\* the calls of update_ranking_for_period the running process has made so
\* far, the one in progress last
CallsMade ==
  [i \in 1..Len(log) |-> <<log[i][1], log[i][2]>>]
    \o (IF InCall THEN <<ThisPeriod>> ELSE << >>)

C12_WindowIsThePeriod ==
  InCall =>
    /\ period_type = "daily" => start_date = period_key /\ end_date = period_key
    /\ period_type = "monthly" =>
         LET y == period_key \div 100
             m == period_key % 100
         IN /\ start_date = DateOf(y, m, 1)
            /\ end_date = DateOf(y, m, DaysIn(y, m))
            /\ IsDate(end_date) /\ ~IsDate(end_date + 1)
            /\ period_key = 202402 => end_date = 20240229
            /\ period_key = 202302 => end_date = 20230228
            /\ period_key = 190002 => end_date = 19000228
            /\ period_key = 200002 => end_date = 20000229
    /\ period_type = "yearly" =>
         /\ start_date = DateOf(period_key, 1, 1)
         /\ end_date = DateOf(period_key, 12, 31)

\* the month 2024-02 of a leap year is being ranked over [02-01, 02-29]
C12_Witness ==
  /\ pc = "write"
  /\ period_type = "monthly" /\ period_key = 202402
  /\ start_date = 20240201 /\ end_date = 20240229
  /\ \E i \in 1..Len(activities) : activities[i].date = 20240229

\* a call of the running process is in progress or has returned
CallSeen == pc \in {"call", "aggregate", "write", "commit"} /\ period_type # ""

\* the display name the current call gets for user u: from the cache the
\* call inherited, else from the profile store
NameForCall(u) ==
  IF u \in DOMAIN pre.user_cache THEN pre.user_cache[u] ELSE NameInStore(u)

\* C13: a call writes only documents named by its own period type, period
\* key and a user id; every ranking document of another period is as the
\* call found it; and what it writes is determined by the stores and the
\* display-name cache it inherited, nothing else being carried from the
\* period before (the call starts from empty totals and an empty batch).
C13_OnlyThisPeriodWritten ==
  CallSeen =>
    /\ \A id \in DOMAIN pre.rankings :
         <<id[1], id[2]>> # ThisPeriod =>
           id \in DOMAIN rankings /\ rankings[id] = pre.rankings[id]
    /\ \A id \in (DOMAIN rankings) \ (DOMAIN pre.rankings) : <<id[1], id[2]>> = ThisPeriod
    /\ \A i \in 1..Len(Written) :
         /\ Written[i].ref = <<period_type, period_key, Written[i].data.userId>>
         /\ Written[i].data =
              RankingData(period_type, period_key, Written[i].data.userId,
                          NameForCall(Written[i].data.userId),
                          SumDistance(MatchingOf(Written[i].data.userId)), i)
    /\ pc = "aggregate" =>
         /\ user_distances = << >> /\ sorted_rankings = << >>
         /\ batch = << >> /\ count = 0
         /\ user_cache = pre.user_cache /\ rankings = pre.rankings

\* the yearly call of a run has written its documents beside the daily ones
\* of the same run, with a display name it found in the cache
C13_Witness ==
  /\ Returned("updated") /\ period_type = "yearly"
  /\ pre.user_cache # Empty
  /\ \E id \in DOMAIN pre.rankings : id[1] = "daily"
  /\ \E id \in DOMAIN rankings : id[1] = "yearly" /\ id[3] \in DOMAIN pre.user_cache
  /\ ops.lookup = 0

NobodyInWindow == {u \in StoreUsers : MatchingOf(u) # {}} = {}

\* C14: a call whose window holds no record with a non-empty userId returns
\* normally with no profile lookup and no commit, the ranking store as the
\* call found it; the process goes on, and a run of main that ends normally
\* has made its three calls.
C14_NoDataIsQuietReturn ==
  /\ pc \in {"write", "commit"} => ~NobodyInWindow
  /\ ((Returned("updated") \/ Returned("no_data")) /\ NobodyInWindow) =>
       outcome = "no_data"
  /\ Returned("no_data") =>
       /\ ops.lookup = 0 /\ ops.commit = 0 /\ commits = << >>
       /\ rankings = pre.rankings
       /\ user_cache = pre.user_cache
       /\ exit = "none"
  /\ (pc = "ended" /\ Len(log) > 0 /\ log[Len(log)][3] = "no_data") => exit = "ok"
  /\ (pc = "ended" /\ exit = "ok" /\ driver = "main") => Len(log) = 3

\* the daily window held only a record with an empty userId: the daily call
\* returned with nothing written, and the monthly call then ranked its users
C14_Witness ==
  /\ Returned("updated") /\ period_type = "monthly"
  /\ log = << <<"daily", 20240229, "no_data">>, <<"monthly", 202403, "updated">> >>
  /\ \E k \in 1..Len(activities) :
       activities[k].userId = EmptyStr /\ activities[k].date = 20240229
  /\ \A id \in DOMAIN rankings : id[1] = "monthly"

\* C15 as claimed: the running process has read the profile store at most
\* once per user id, each read has put the user in the cache, and a cached
\* name stays what the store holds.
C15_OneReadPerUser ==
  /\ \A i, j \in 1..Len(reads) : reads[i] = reads[j] => i = j
  /\ \A i \in 1..Len(reads) : reads[i] \in DOMAIN user_cache
  /\ \A u \in DOMAIN user_cache : user_cache[u] = NameInStore(u)

PeriodsStored == {<<id[1], id[2]>> : id \in DOMAIN rankings}

IdsOf(p) == {id \in DOMAIN rankings : <<id[1], id[2]>> = p}

\* C16 as claimed: in every state of the ranking store, the documents of one
\* period carry ranks that differ from one another.
C16_NoDuplicateRanks ==
  \A p \in PeriodsStored :
    Cardinality({rankings[id].rank : id \in IdsOf(p)}) = Cardinality(IdsOf(p))

\* the records of user u dated in [lo, hi]
DatedIn(u, lo, hi) ==
  {i \in 1..Len(activities) :
     activities[i].userId = u /\ lo <= activities[i].date /\ activities[i].date <= hi}

\* the ranking documents of period (t, key), whose window is [lo, hi], give
\* every user with a record in the window the sum of these records
Accounted(t, key, lo, hi) ==
  \A u \in StoreUsers :
    DatedIn(u, lo, hi) # {} =>
      /\ <<t, key, u>> \in DOMAIN rankings
      /\ rankings[<<t, key, u>>].distance = SumDistance(DatedIn(u, lo, hi))

\* C17 as claimed: from some time on, the monthly ranking of every month
\* accounts for every record dated in that month, and the yearly ranking of
\* every year for every record dated in that year.
C17_WindowsEventuallyComplete ==
  <>[](/\ \A m \in {d \div 100 : d \in LiveDays} :
            Accounted("monthly", m, m * 100 + 1, m * 100 + 31)
       /\ \A y \in {d \div 10000 : d \in LiveDays} :
            Accounted("yearly", y, y * 10000 + 101, y * 10000 + 1231))

====
